---- MODULE Spec2Model ----
(***************************************************************************)
(* Model of the task runner of Agent Task Player (runner/runner.ts).       *)
(*                                                                         *)
(* The runner is JavaScript on one event loop.  A step of the model is     *)
(* either one macrotask arriving while the loop is idle (a call of the     *)
(* public API, the close or error event of a spawned process, a timer) or  *)
(* one piece of the synchronous code (with its microtask continuations)    *)
(* that the macrotask sets off.  The variable `active` names the           *)
(* traversal whose code is running; while it is set nothing else can       *)
(* run, exactly as nothing interleaves between two awaits of settled       *)
(* promises.  Indices are 1-based here and 0-based in the source.          *)
(*                                                                         *)
(* The parts the runner uses are modelled beside it, each with a           *)
(* specification of its own that leaves the runner at rest: one call of    *)
(* runCli (CliSpec), the engine registry (RegistrySpec), the history       *)
(* store (HistorySpec), the plan file (PlanFileSpec).                      *)
(***************************************************************************)
EXTENDS Integers, Sequences, FiniteSets, TLC

VARIABLES
  plan,                  \* the Plan object handed to play()/playTask()
  status,                \* task.status of every task of the plan
  state,                 \* TaskRunner._state
  currentPlaylistIndex,  \* TaskRunner._currentPlaylistIndex
  currentTaskIndex,      \* TaskRunner._currentTaskIndex
  abortController,       \* TaskRunner._abortController: 0 = null, n = the n-th controller
  aborted,               \* the controllers whose signal has fired
  pauseResolve,          \* TaskRunner._pauseResolve: 0 = null, tr = the continuation of tr
  trav,                  \* the live invocations of play()/playTask(), with their locals
  active,                \* the invocation whose synchronous code is running, 0 = loop idle
  calls,                 \* number of API calls made so far
  lastEvent,             \* what the last step emitted or which call it was
  cli,                   \* one call of runCli (adapters/base-cli.ts) and its process
  registry,              \* the engine registry (adapters/engine.ts) and its last call
  store,                 \* the HistoryStore (history/store.ts) and its last call
  planFile               \* a plan in memory, the plan file on disk, the plan loaded from it

\* The state of the runner, and the state of the parts it uses.
runner == <<plan, status, state, currentPlaylistIndex, currentTaskIndex,
            abortController, aborted, pauseResolve, trav, active, calls, lastEvent>>
parts == <<cli, registry, store, planFile>>
vars == <<plan, status, state, currentPlaylistIndex, currentTaskIndex,
          abortController, aborted, pauseResolve, trav, active, calls, lastEvent,
          cli, registry, store, planFile>>

\* Number of API calls (play, playTask, pause, stop, resetPlan) in one behaviour.
MaxCalls == 3
\* The same for the smallest plan, PlanPair, which is explored deeper.
MaxCallsPair == 5
\* The same for PlanParSeq, whose two retrying siblings interleave the most.
MaxCallsPar == 2
\* Number of output chunks a process writes to one stream.
MaxChunks == 2
\* Number of registerEngine calls, and of ids in one availability check.
MaxRegs == 2
MaxIds == 2
\* Number of entries added to the history, and the largest maxHistoryEntries.
MaxAdds == 4
MaxMax == 2

------------------------------------------------------------------------------
\* Enumerations of models/types.ts

Idle == "idle"
Playing == "playing"
Paused == "paused"
Stopping == "stopping"
RunnerState == {Idle, Playing, Paused, Stopping}

Pending == "pending"
Running == "running"
Completed == "completed"
Failed == "failed"
Skipped == "skipped"
\* TaskStatus.Paused has the same string value as RunnerState.Paused
TaskStatus == {Pending, Running, Paused, Completed, Failed, Skipped}

\* The adapters registered by registerAllEngines()
RegisteredEngines == {"codex", "claude", "gemini", "ollama", "custom"}
\* An unset optional field (task.engine, playlist.engine)
Unset == "unset"

------------------------------------------------------------------------------
\* Plans

Task(id, retryCount, dependsOn, verifyCommand, engine) ==
  [id |-> id, retryCount |-> retryCount, dependsOn |-> dependsOn,
   verifyCommand |-> verifyCommand, engine |-> engine]

Playlist(parallel, autoplay, engine, tasks) ==
  [parallel |-> parallel, autoplay |-> autoplay, engine |-> engine, tasks |-> tasks]

\* One sequential playlist with autoplay: a retry budget and a dependency chain
\* a <- b <- c.
PlanChain ==
  [defaultEngine |-> "claude",
   playlists |-> <<
     Playlist(FALSE, TRUE, Unset, <<
       Task("a", 1, <<>>, FALSE, Unset),
       Task("b", 0, <<"a">>, FALSE, Unset),
       Task("c", 0, <<"b">>, FALSE, Unset) >>) >>]

\* Two sequential playlists; engine overrides; a dependency across playlists.
PlanTwoSeq ==
  [defaultEngine |-> "claude",
   playlists |-> <<
     Playlist(FALSE, FALSE, Unset, <<
       Task("a", 0, <<>>, FALSE, Unset),
       Task("b", 0, <<>>, FALSE, Unset) >>),
     Playlist(FALSE, FALSE, "codex", <<
       Task("c", 0, <<>>, FALSE, Unset),
       Task("d", 0, <<"a">>, FALSE, "gemini") >>) >>]

\* A sequential playlist followed by a parallel one with a sibling dependency; an
\* engine override on a task of a playlist that has none.
PlanSeqPar ==
  [defaultEngine |-> "claude",
   playlists |-> <<
     Playlist(FALSE, FALSE, Unset, <<
       Task("a", 0, <<>>, FALSE, "custom") >>),
     Playlist(TRUE, FALSE, Unset, <<
       Task("b", 0, <<>>, FALSE, Unset),
       Task("c", 0, <<"b">>, FALSE, Unset) >>) >>]

\* A parallel playlist with a retry budget and a verify command, followed by a
\* sequential one that depends on it.
PlanParSeq ==
  [defaultEngine |-> "ollama",
   playlists |-> <<
     Playlist(TRUE, FALSE, Unset, <<
       Task("a", 1, <<>>, FALSE, Unset),
       Task("b", 0, <<>>, TRUE, Unset) >>),
     Playlist(FALSE, FALSE, Unset, <<
       Task("c", 0, <<"a">>, FALSE, Unset) >>) >>]

\* Engine ids with no registered adapter, in a parallel and in a sequential
\* playlist; a dependency on an id that no task has.
PlanBadEngine ==
  [defaultEngine |-> "claude",
   playlists |-> <<
     Playlist(TRUE, FALSE, Unset, <<
       Task("a", 0, <<>>, FALSE, "bogus"),
       Task("b", 0, <<>>, FALSE, Unset) >>),
     Playlist(FALSE, FALSE, "bogus", <<
       Task("c", 0, <<"zz">>, FALSE, Unset),
       Task("d", 0, <<>>, FALSE, Unset) >>) >>]

\* One sequential playlist of two plain tasks.
PlanPair ==
  [defaultEngine |-> "claude",
   playlists |-> <<
     Playlist(FALSE, FALSE, Unset, <<
       Task("a", 0, <<>>, FALSE, Unset),
       Task("b", 0, <<>>, FALSE, Unset) >>) >>]

\* One parallel playlist in which a task depends on siblings listed after it and
\* a task depends on a sibling listed before it.
PlanParDep ==
  [defaultEngine |-> "claude",
   playlists |-> <<
     Playlist(TRUE, FALSE, Unset, <<
       Task("a", 0, <<"b">>, FALSE, Unset),
       Task("b", 0, <<>>, FALSE, Unset),
       Task("c", 0, <<"b">>, FALSE, Unset) >>) >>]

Plans == {PlanChain, PlanTwoSeq, PlanSeqPar, PlanParSeq, PlanBadEngine, PlanPair,
          PlanParDep}

NumPlaylists == Len(plan.playlists)
Tasks(p) == plan.playlists[p].tasks
TaskAt(p, t) == plan.playlists[p].tasks[t]
Positions ==
  UNION {{<<p, t>> : t \in 1..Len(Tasks(p))} : p \in 1..NumPlaylists}

\* task.dependsOn && task.dependsOn.length > 0
HasDeps(task) == Len(task.dependsOn) > 0

\* allTasks.find(t => t.id === depId): the first task of the plan, in plan order,
\* with that id; <<0, 0>> when there is none.
Before(x, y) == x[1] < y[1] \/ (x[1] = y[1] /\ x[2] < y[2])
FindTask(depId) ==
  LET hits == {pos \in Positions : TaskAt(pos[1], pos[2]).id = depId}
  IN IF hits = {} THEN <<0, 0>>
     ELSE CHOOSE pos \in hits : \A o \in hits : o = pos \/ Before(pos, o)

\* A faulty variant of DepUnmet that lets Failed, Pending and Running dependencies pass.
DepUnmetBug(depId, st) ==
  LET dep == FindTask(depId)
  IN dep = <<0, 0>> \/ st[dep] = Skipped
\* One dependency of checkDependencies' loop: TRUE when it makes the loop return 'skip'.
DepUnmet(depId, st) ==
  LET dep == FindTask(depId)
  IN \/ dep = <<0, 0>> \/ st[dep] = Failed \/ st[dep] = Skipped
     \/ st[dep] # Completed

\* TaskRunner.checkDependencies
checkDependencies(task, st) ==
  IF \E i \in 1..Len(task.dependsOn) : DepUnmet(task.dependsOn[i], st)
  THEN "skip" ELSE "ok"

\* A faulty variant of EngineId that lets the playlist's engine win over the task's.
EngineIdBug(p, t) ==
  IF plan.playlists[p].engine # Unset THEN plan.playlists[p].engine
  ELSE IF TaskAt(p, t).engine # Unset THEN TaskAt(p, t).engine
  ELSE plan.defaultEngine
\* const engineId = task.engine ?? playlist.engine ?? plan.defaultEngine
EngineId(p, t) ==
  IF TaskAt(p, t).engine # Unset THEN TaskAt(p, t).engine
  ELSE IF plan.playlists[p].engine # Unset THEN plan.playlists[p].engine
  ELSE plan.defaultEngine

\* getEngine(engineId) throws for an id with no registered adapter
GetEngineThrows(p, t) == EngineId(p, t) \notin RegisteredEngines

\* const maxAttempts = (task.retryCount ?? 0) + 1
MaxAttempts(task) == task.retryCount + 1

\* const startTask = pi === this._currentPlaylistIndex ? this._currentTaskIndex : 0,
\* evaluated after this._currentPlaylistIndex = pi (cpi, cti: the fields' values then)
StartTask(pi, cpi, cti) == IF pi = cpi THEN cti ELSE 1

------------------------------------------------------------------------------
\* Invocations of play() and playTask()

CallBound ==
  IF plan = PlanPair THEN MaxCallsPair
  ELSE IF plan \in {PlanParSeq, PlanParDep} THEN MaxCallsPar ELSE MaxCalls
\* A second live invocation needs two more calls (pause or stop, then play).
TravIds == 1..(((IF MaxCalls > MaxCallsPair THEN MaxCalls ELSE MaxCallsPair) + 1) \div 2)

NoChild == [pc |-> "none", attempt |-> 0]
NoChildren(p) == [t \in 1..Len(Tasks(p)) |-> NoChild]

\* A slot that holds no invocation.
FreeTrav ==
  [pc |-> "free", kind |-> "none", pi |-> 0, ti |-> 0, k |-> 0, child |-> <<>>,
   startP |-> 0, startT |-> 0, invocations |-> <<>>, skipped |-> {},
   nHistory |-> 0, stop |-> "no"]

\* The slot of a fresh invocation (its bookkeeping fields are for the properties:
\* invocations counts the calls of engine.runTask per task, skipped holds the tasks
\* it marked Skipped, nHistory counts its calls of historyStore.add).
NewTrav(kind, p, t) ==
  [FreeTrav EXCEPT !.kind = kind, !.pi = p, !.startP = p, !.startT = t,
                   !.invocations = [pos \in Positions |-> 0]]

Live == {tr \in TravIds : trav[tr].pc # "free"}
FreeSlot == CHOOSE tr \in TravIds : trav[tr].pc = "free" /\ \A o \in TravIds : o < tr => trav[o].pc # "free"

\* EngineResult.  stderr is kept as the sequence of the pieces it is concatenated
\* from; durationMs is "0" for the literal 0 and "elapsed" for a measured time.
EngineResult(stdout, stderr, exitCode, durationMs) ==
  [stdout |-> stdout, stderr |-> stderr, exitCode |-> exitCode, durationMs |-> durationMs]
NoResult == EngineResult("", <<>>, 0, "0")

\* What runCli resolves with when the process closes with this exit code.
AdapterResult(exitCode) == EngineResult("out", <<"err">>, exitCode, "elapsed")

VerifyMarker == "[Verification command failed]"
\* A faulty variant of VerifyOutcome that leaves the marker out.
VerifyOutcomeBug(result, verifyResult) ==
  IF verifyResult # 0 THEN [result EXCEPT !.exitCode = verifyResult] ELSE result
\* executeTask: result.exitCode = verifyResult; result.stderr += marker
VerifyOutcome(result, verifyResult) ==
  IF verifyResult # 0
  THEN [result EXCEPT !.exitCode = verifyResult, !.stderr = Append(@, VerifyMarker)]
  ELSE result

\* The messages runTask rejects with, and getErrorGuidance on them.
ErrorMessages == {"Failed to start: spawn ENOENT", "Failed to start: unknown"}
getErrorGuidance(errMsg) ==
  IF errMsg = "Failed to start: spawn ENOENT" THEN "Hint: not installed" ELSE "null"
\* A faulty variant of ErrorResult that drops the error text.
ErrorResultBug(errMsg) == EngineResult("", <<>>, 1, "0")
\* executeTask's catch: errorResult
ErrorResult(errMsg) ==
  EngineResult("", IF getErrorGuidance(errMsg) # "null"
                   THEN <<errMsg, getErrorGuidance(errMsg)>> ELSE <<errMsg>>, 1, "0")
\* The result object of the task-completed event of a skipped task.
SkipResult == EngineResult("", <<"Skipped: dependency not met">>, 0, "0")

\* An event about a task carries the task's status at the moment it is emitted,
\* the result object it is emitted with, and whether the step also appended a
\* history entry with that status and result.  The engine field is the engineId
\* of executeTask: the id the step handed to getEngine (task-started) or wrote
\* to the history entry.
ResultEvent(type, tr, p, t, attempt, st, result, recorded) ==
  [type |-> type, tr |-> tr, p |-> p, t |-> t, attempt |-> attempt, status |-> st,
   result |-> result, recorded |-> recorded, engine |-> "none"]
TaskEvent(type, tr, p, t, attempt, st) ==
  ResultEvent(type, tr, p, t, attempt, st, NoResult, FALSE)
Event(type, tr, p, t, attempt) == TaskEvent(type, tr, p, t, attempt, "none")
NoEvent == Event("none", 0, 0, 0, 0)


InParallel(r) == r.kind = "play" /\ plan.playlists[r.pi].parallel
\* A faulty variant of AllSettled: the first promise to settle ends the wait.
AllSettledBug(child) == \E t \in DOMAIN child : child[t].pc \in {"settled", "rejected"}
\* await Promise.allSettled(promises)
AllSettled(child) == \A t \in DOMAIN child : child[t].pc \in {"settled", "rejected"}

\* The runner after construction, before any call.
RunnerInit ==
  /\ plan \in Plans
  /\ status = [pos \in Positions |-> Pending]
  /\ state = Idle
  /\ currentPlaylistIndex = 1
  /\ currentTaskIndex = 1
  /\ abortController = 0
  /\ aborted = {}
  /\ pauseResolve = 0
  /\ trav = [tr \in TravIds |-> FreeTrav]
  /\ active = 0
  /\ calls = 0
  /\ lastEvent = NoEvent

------------------------------------------------------------------------------
\* runCli (adapters/base-cli.ts): one call and the process it spawns.
\*   signal   options.signal: "none" (undefined), "clear" or "aborted"
\*   pc       "idle" before the call, "called" after it
\*   listener the abort listener is registered and has not run
\*   proc     "none", "running", "killed" (SIGTERM delivered), "exited", "nostart"
\*            (spawn failed, error event pending), "errored", "closed"
\*   code     the code argument of the close event: <<n>> for the integer n,
\*            NoCode for null
\*   promise  "pending", "resolved" or "rejected"; exitCode is result.exitCode,
\*            <<n>> or, for undefined, NoCode
\*   abortedAt what the process was doing when the signal fired
\* The program is taken not to handle SIGTERM: a kill ends it with a null code.

NoCode == <<>>
SpawnErrno == <<-2>>
NoCli ==
  [signal |-> "none", pc |-> "idle", listener |-> FALSE, proc |-> "none",
   code |-> NoCode, promise |-> "pending", exitCode |-> NoCode,
   stdout |-> 0, stderr |-> 0, killed |-> FALSE, abortedAt |-> "never"]

\* exitCode: code ?? 1
ExitCodeOf(code) == IF code = NoCode THEN <<1>> ELSE code

\* resolve and reject of a promise that is already settled do nothing
SettlePromise(c, outcome, exitCode) ==
  IF c.promise = "pending" THEN [c EXCEPT !.promise = outcome, !.exitCode = exitCode]
  ELSE c

\* runCli up to its return: spawn, the data listeners, the abort listener.  A
\* listener added to a signal that has already fired never runs.
RunCli(exists) ==
  /\ cli.pc = "idle"
  /\ cli' = [cli EXCEPT !.pc = "called",
                         !.proc = IF exists THEN "running" ELSE "nostart",
                         !.listener = cli.signal # "none"]
  /\ UNCHANGED <<runner, registry, store, planFile>>

\* The caller signals cancellation (AbortController.abort()); the abort event runs
\* the listener, once: proc.kill('SIGTERM').
CliAbort ==
  /\ cli.signal = "clear"
  /\ cli' = [cli EXCEPT
               !.signal = "aborted",
               !.listener = FALSE,
               !.proc = IF cli.listener /\ cli.proc = "running" THEN "killed" ELSE @,
               !.killed = cli.listener /\ cli.proc = "running",
               !.abortedAt = IF cli.pc = "idle" THEN "beforeCall"
                             ELSE IF cli.proc = "running" THEN "running"
                             ELSE "later"]
  /\ UNCHANGED <<runner, registry, store, planFile>>

\* proc.stdout.on('data') / proc.stderr.on('data')
CliData(stream) ==
  /\ cli.proc \in {"running", "killed", "exited"}
  /\ cli[stream] < MaxChunks
  /\ cli' = [cli EXCEPT ![stream] = @ + 1]
  /\ UNCHANGED <<runner, registry, store, planFile>>

\* The process ends by itself with this exit code.
CliExit(code) ==
  /\ cli.proc = "running"
  /\ cli' = [cli EXCEPT !.proc = "exited", !.code = <<code>>]
  /\ UNCHANGED <<runner, registry, store, planFile>>

\* proc.on('error'): the program could not be started
CliError ==
  /\ cli.proc = "nostart"
  /\ cli' = [SettlePromise(cli, "rejected", NoCode) EXCEPT !.proc = "errored",
                                                            !.code = SpawnErrno]
  /\ UNCHANGED <<runner, registry, store, planFile>>

\* proc.on('close'): resolve with exitCode: code ?? 1
CliClose ==
  /\ cli.proc \in {"killed", "exited", "errored"}
  /\ cli' = [SettlePromise(cli, "resolved", ExitCodeOf(cli.code)) EXCEPT !.proc = "closed"]
  /\ UNCHANGED <<runner, registry, store, planFile>>

CliNext ==
  \/ \E exists \in BOOLEAN : RunCli(exists)
  \/ CliAbort
  \/ \E stream \in {"stdout", "stderr"} : CliData(stream)
  \/ \E code \in {0, 1, 2} : CliExit(code)
  \/ CliError
  \/ CliClose

------------------------------------------------------------------------------
\* The engine registry (adapters/engine.ts)

\*   map      the Map from engine id to adapter (NoAdapter: no entry)
\*   log      the adapters registered so far, in order (for the properties)
\*   pending  a call of checkEngineAvailability waiting for commandExists: the ids
\*            it was called with and the adapters it read, or NoCheck
\*   ret      the last call and what it returned or threw

EngineIds == RegisteredEngines \cup {"bogus"}
Adapter(id, displayName, command) ==
  [id |-> id, displayName |-> displayName, command |-> command]
NoAdapter == Adapter("none", "none", "none")
\* The adapters handed to registerEngine; one of them has no command.
Adapters ==
  {Adapter("codex", "Codex", "codex"), Adapter("codex", "Test Codex", ""),
   Adapter("claude", "Claude", "claude"), Adapter("claude", "Test Claude", "claude2")}
\* The ids asked for: two that are registered at some time and one that never is.
AskedIds == {"codex", "claude", "bogus"}

NoCheck == [ids |-> <<>>, read |-> <<>>]
NoAvailability == <<>>
Return(op, id, ids, throws, adapter, results) ==
  [op |-> op, id |-> id, ids |-> ids, throws |-> throws, adapter |-> adapter,
   results |-> results]
NoReturn == Return("none", "none", <<>>, FALSE, NoAdapter, NoAvailability)

\* const registry = new Map<EngineId, EngineAdapter>()
NewRegistry ==
  [map |-> [id \in EngineIds |-> NoAdapter], log |-> <<>>, pending |-> NoCheck,
   ret |-> NoReturn]

\* A faulty variant of MapSet that keeps the first adapter registered under an id.
MapSetBug(map, adapter) ==
  IF map[adapter.id] = NoAdapter THEN [map EXCEPT ![adapter.id] = adapter] ELSE map
\* registry.set(adapter.id, adapter)
MapSet(map, adapter) == [map EXCEPT ![adapter.id] = adapter]

\* registerAllEngines(): the five built-in adapters, registered in order
RECURSIVE RegisterEach(_, _)
RegisterEach(reg, adapters) ==
  IF adapters = <<>> THEN reg
  ELSE RegisterEach([reg EXCEPT !.map = MapSet(reg.map, Head(adapters)),
                                !.log = Append(reg.log, Head(adapters))],
                    Tail(adapters))
RegistryAtRest ==
  RegisterEach(NewRegistry,
               << Adapter("codex", "Codex", "codex"), Adapter("claude", "Claude", "claude"),
                  Adapter("gemini", "Gemini", "gemini"), Adapter("ollama", "Ollama", "ollama"),
                  Adapter("custom", "Custom", "") >>)

\* registerEngine(adapter)
RegisterEngine(adapter) ==
  /\ Len(registry.log) < MaxRegs
  /\ registry' = [registry EXCEPT !.map = MapSet(registry.map, adapter),
                                   !.log = Append(registry.log, adapter),
                                   !.ret = Return("registerEngine", adapter.id, <<>>, FALSE,
                                                  NoAdapter, NoAvailability)]
  /\ UNCHANGED <<runner, cli, store, planFile>>

\* getEngine(id)
GetEngine(id) ==
  /\ registry' = [registry EXCEPT !.ret =
                    IF registry.map[id] = NoAdapter
                    THEN Return("getEngine", id, <<>>, TRUE, NoAdapter, NoAvailability)
                    ELSE Return("getEngine", id, <<>>, FALSE, registry.map[id], NoAvailability)]
  /\ UNCHANGED <<runner, cli, store, planFile>>

\* [...new Set(engineIds)]
Unique(ids) == {ids[i] : i \in 1..Len(ids)}

\* checkEngineAvailability(engineIds) up to the await: every callback of unique.map
\* reads the registry and, for an id with no adapter, sets its entry
CheckEngineAvailability(ids) ==
  /\ registry.pending = NoCheck
  /\ registry' = [registry EXCEPT
                    !.pending = [ids |-> ids,
                                 read |-> [id \in Unique(ids) |-> registry.map[id]]],
                    !.ret = Return("checkEngineAvailability", "none", ids, FALSE,
                                   NoAdapter, NoAvailability)]
  /\ UNCHANGED <<runner, cli, store, planFile>>

\* commandExists(command): false for an empty command, else what `which` finds
CommandExists(command, found) == command # "" /\ found

\* checkEngineAvailability after every commandExists has resolved: the Map returned
Availability(read, onPath) ==
  [id \in DOMAIN read |->
     IF read[id] = NoAdapter
     THEN [available |-> FALSE, command |-> "", displayName |-> id]
     ELSE [available |-> CommandExists(read[id].command, read[id].command \in onPath),
           command |-> read[id].command, displayName |-> read[id].displayName]]

CheckResolved(onPath) ==
  /\ registry.pending # NoCheck
  /\ registry' = [registry EXCEPT
                    !.pending = NoCheck,
                    !.ret = Return("availability", "none", registry.pending.ids, FALSE,
                                   NoAdapter, Availability(registry.pending.read, onPath))]
  /\ UNCHANGED <<runner, cli, store, planFile>>

RegistryNext ==
  \/ \E adapter \in Adapters : RegisterEngine(adapter)
  \/ \E id \in AskedIds : GetEngine(id)
  \/ \E ids \in UNION {[1..n -> AskedIds] : n \in 1..MaxIds} : CheckEngineAvailability(ids)
  \/ \E onPath \in SUBSET {"codex", "claude"} : CheckResolved(onPath)

------------------------------------------------------------------------------
\* The history store (history/store.ts)

\*   entries  HistoryStore._entries, oldest first
\*   max      the setting agentTaskPlayer.maxHistoryEntries, read by every trim
\*   nextId   the id the next entry gets (entry.id is unique)
\*   added    every entry handed to add() since construction or the last clear(),
\*            after the entries loaded from storage (for the properties)
\*   ret      the last call and what it returned

HistoryEntry(id, taskId) == [id |-> id, taskId |-> taskId]
TaskIds == {"a", "b"}
StoreReturn(op, taskId, value) == [op |-> op, taskId |-> taskId, value |-> value]

\* new HistoryStore(storage): storage.get(HISTORY_KEY, [])
NewStore(loaded, max) ==
  [entries |-> loaded, max |-> max, nextId |-> Len(loaded) + 1, added |-> loaded,
   ret |-> StoreReturn("none", "none", <<>>)]
StoreAtRest == NewStore(<<>>, MaxMax)

\* array.reverse() on a copy
Reverse(q) == [i \in 1..Len(q) |-> q[Len(q) - i + 1]]
\* array.filter(e => e.taskId === taskId)
RECURSIVE FilterTask(_, _)
FilterTask(q, taskId) ==
  IF q = <<>> THEN <<>>
  ELSE IF Head(q).taskId = taskId THEN <<Head(q)>> \o FilterTask(Tail(q), taskId)
  ELSE FilterTask(Tail(q), taskId)

\* A faulty variant of Trim that keeps the oldest entries.
TrimBug(entries, max) ==
  IF Len(entries) > max THEN SubSeq(entries, 1, max) ELSE entries
\* trim(): this._entries.slice(this._entries.length - max) when there are more than max
Trim(entries, max) ==
  IF Len(entries) > max THEN SubSeq(entries, Len(entries) - max + 1, Len(entries))
  ELSE entries

\* add(entry): push, trim, persist
HistoryAdd(taskId) ==
  /\ store.nextId <= MaxAdds
  /\ LET entry == HistoryEntry(store.nextId, taskId) IN
     store' = [store EXCEPT !.entries = Trim(Append(store.entries, entry), store.max),
                            !.nextId = @ + 1,
                            !.added = Append(@, entry),
                            !.ret = StoreReturn("add", taskId, <<>>)]
  /\ UNCHANGED <<runner, cli, registry, planFile>>

\* getAll()
HistoryGetAll ==
  /\ store' = [store EXCEPT !.ret = StoreReturn("getAll", "none", Reverse(store.entries))]
  /\ UNCHANGED <<runner, cli, registry, planFile>>

\* getForTask(taskId)
HistoryGetForTask(taskId) ==
  /\ store' = [store EXCEPT !.ret = StoreReturn("getForTask", taskId,
                                                Reverse(FilterTask(store.entries, taskId)))]
  /\ UNCHANGED <<runner, cli, registry, planFile>>

\* clear()
HistoryClear ==
  /\ store.entries # <<>>
  /\ store' = [store EXCEPT !.entries = <<>>, !.added = <<>>,
                            !.ret = StoreReturn("clear", "none", <<>>)]
  /\ UNCHANGED <<runner, cli, registry, planFile>>

\* The user changes the setting maxHistoryEntries.
HistoryConfigure(max) ==
  /\ max # store.max
  /\ store' = [store EXCEPT !.max = max, !.ret = StoreReturn("configure", "none", <<>>)]
  /\ UNCHANGED <<runner, cli, registry, planFile>>

HistoryNext ==
  \/ \E taskId \in TaskIds : HistoryAdd(taskId)
  \/ HistoryGetAll
  \/ \E taskId \in TaskIds : HistoryGetForTask(taskId)
  \/ HistoryClear
  \/ \E max \in 0..MaxMax : HistoryConfigure(max)

------------------------------------------------------------------------------
\* The plan file (models/plan.ts).  An object is a function from the keys it has
\* to their values.  The value of an optional field is a sequence: <<>> is
\* undefined, <<v>> is the value v.  The file on disk is the JSON document, the
\* tree of the keys that JSON.stringify wrote.

\* Number of tasks in the playlist of a saved plan.
MaxFileTasks == 2

Undefined == <<>>
\* The fields declared with `?` in models/types.ts
OptionalKeys == {"description", "engine", "autoplayDelay", "parallel", "cwd",
                 "files", "verifyCommand", "retryCount", "dependsOn"}

\* o.k: undefined when the object has no key k
Get(o, k) == IF k \in DOMAIN o THEN o[k] ELSE Undefined

\* JSON.stringify of one object: a property whose value is undefined is left out
JsonObject(o) ==
  [k \in {x \in DOMAIN o : ~(x \in OptionalKeys /\ o[x] = Undefined)} |-> o[k]]

\* JSON.stringify(file, null, 2), and JSON.parse of the text read back
JsonDocument(file) ==
  JsonObject([file EXCEPT !.playlists =
    [i \in DOMAIN @ |->
       JsonObject([@[i] EXCEPT !.tasks = [j \in DOMAIN @ |-> JsonObject(@[j])]])]])

hydrateTask(t) ==
  [id |-> t.id, name |-> t.name, prompt |-> t.prompt,
   engine |-> Get(t, "engine"), cwd |-> Get(t, "cwd"), files |-> Get(t, "files"),
   verifyCommand |-> Get(t, "verifyCommand"), status |-> Pending]

hydratePlaylist(p) ==
  [id |-> p.id, name |-> p.name, engine |-> Get(p, "engine"),
   autoplay |-> IF "autoplay" \in DOMAIN p THEN p.autoplay ELSE TRUE,
   autoplayDelay |-> Get(p, "autoplayDelay"),
   tasks |-> [j \in DOMAIN p.tasks |-> hydrateTask(p.tasks[j])]]

hydratePlan(file) ==
  [version |-> file.version, name |-> file.name,
   description |-> Get(file, "description"), defaultEngine |-> file.defaultEngine,
   playlists |-> [i \in DOMAIN file.playlists |-> hydratePlaylist(file.playlists[i])]]

dehydrateTask(t) ==
  [id |-> t.id, name |-> t.name, prompt |-> t.prompt, engine |-> t.engine,
   cwd |-> t.cwd, files |-> t.files, verifyCommand |-> t.verifyCommand]

dehydratePlaylist(p) ==
  [id |-> p.id, name |-> p.name, engine |-> p.engine, autoplay |-> p.autoplay,
   autoplayDelay |-> p.autoplayDelay,
   tasks |-> [j \in DOMAIN p.tasks |-> dehydrateTask(p.tasks[j])]]

dehydratePlan(pl) ==
  [version |-> pl.version, name |-> pl.name, description |-> pl.description,
   defaultEngine |-> pl.defaultEngine,
   playlists |-> [i \in DOMAIN pl.playlists |-> dehydratePlaylist(pl.playlists[i])]]

createEmptyPlan(name) ==
  [version |-> "1.0", name |-> name, description |-> Undefined,
   defaultEngine |-> "claude", playlists |-> <<>>]

\* The plans that are saved: one playlist of up to MaxFileTasks tasks, every
\* optional field of an object either set or left undefined, every task in a
\* status that a run leaves behind.
FileTaskIds == <<"a", "b", "c", "d">>

MemoryTask(j, set, st) ==
  [id |-> FileTaskIds[j], name |-> "Task", prompt |-> "do it",
   engine |-> IF set THEN <<"codex">> ELSE Undefined,
   cwd |-> IF set THEN <<"./src">> ELSE Undefined,
   files |-> IF set THEN << <<"a.ts">> >> ELSE Undefined,
   verifyCommand |-> IF set THEN <<"npm test">> ELSE Undefined,
   retryCount |-> IF set THEN <<2>> ELSE Undefined,
   dependsOn |-> IF set THEN << [i \in 1..(j - 1) |-> FileTaskIds[i]] >> ELSE Undefined,
   status |-> st]

MemoryPlaylist(set, autoplay, tasks) ==
  [id |-> "p1", name |-> "Playlist", autoplay |-> autoplay,
   engine |-> IF set THEN <<"gemini">> ELSE Undefined,
   autoplayDelay |-> IF set THEN <<500>> ELSE Undefined,
   parallel |-> IF set THEN <<TRUE>> ELSE Undefined,
   tasks |-> tasks]

MemoryPlans ==
  {[createEmptyPlan("plan") EXCEPT
      !.description = IF d THEN <<"a plan">> ELSE Undefined,
      !.playlists = <<MemoryPlaylist(s, a,
                        [j \in 1..n |-> MemoryTask(j, f[j][1], f[j][2])])>>] :
     d \in BOOLEAN, s \in BOOLEAN, a \in BOOLEAN, n \in 1..MaxFileTasks,
     f \in [1..MaxFileTasks -> BOOLEAN \X {Pending, Completed, Failed}]}

NewPlanFile(pl) == [memory |-> pl, disk |-> <<>>, loaded |-> <<>>, call |-> "none"]
PlanFileAtRest == NewPlanFile(createEmptyPlan("plan"))

\* savePlan(plan, filePath)
SavePlan ==
  /\ planFile' = [planFile EXCEPT !.disk = <<JsonDocument(dehydratePlan(planFile.memory))>>,
                                  !.call = "savePlan"]
  /\ UNCHANGED <<runner, cli, registry, store>>

\* loadPlan(filePath) of a file that exists
LoadPlan ==
  /\ planFile.disk # <<>>
  /\ planFile' = [planFile EXCEPT !.loaded = <<hydratePlan(planFile.disk[1])>>,
                                  !.call = "loadPlan"]
  /\ UNCHANGED <<runner, cli, registry, store>>

PlanFileNext ==
  \/ SavePlan
  \/ LoadPlan

------------------------------------------------------------------------------
\* Initial states.  Each specification moves one component and leaves the others
\* as they are after construction.

Init ==
  /\ RunnerInit
  /\ cli = NoCli /\ registry = RegistryAtRest /\ store = StoreAtRest
  /\ planFile = PlanFileAtRest

\* One call of runCli, with or without a cancellation signal.
CliInit ==
  /\ RunnerInit /\ plan = PlanPair
  /\ cli \in {[NoCli EXCEPT !.signal = sig] : sig \in {"none", "clear"}}
  /\ registry = RegistryAtRest /\ store = StoreAtRest
  /\ planFile = PlanFileAtRest

CliSpec == CliInit /\ [][CliNext]_vars

\* The registry of a freshly loaded module.
RegistryInit ==
  /\ RunnerInit /\ plan = PlanPair
  /\ cli = NoCli /\ registry = NewRegistry /\ store = StoreAtRest
  /\ planFile = PlanFileAtRest

RegistrySpec == RegistryInit /\ [][RegistryNext]_vars

\* A history store constructed on an empty storage or on one that holds two
\* entries, under any setting of maxHistoryEntries.
HistoryInit ==
  /\ RunnerInit /\ plan = PlanPair
  /\ cli = NoCli /\ registry = RegistryAtRest /\ planFile = PlanFileAtRest
  /\ \E max \in 0..MaxMax :
       store \in {NewStore(<<>>, max),
                  NewStore(<<HistoryEntry(1, "a"), HistoryEntry(2, "b")>>, max)}

HistorySpec == HistoryInit /\ [][HistoryNext]_vars

\* A plan in memory, edited or run, and no plan file yet.
PlanFileInit ==
  /\ RunnerInit /\ plan = PlanPair
  /\ cli = NoCli /\ registry = RegistryAtRest /\ store = StoreAtRest
  /\ planFile \in {NewPlanFile(pl) : pl \in MemoryPlans}

PlanFileSpec == PlanFileInit /\ [][PlanFileNext]_vars

------------------------------------------------------------------------------
\* The public API.  A call arrives as a macrotask, so only while the loop is idle.

\* play(plan, playlistIndex, taskIndex); playPlaylist(plan, p) is play(plan, p, 0)
Play(p, t) ==
  /\ active = 0 /\ calls < CallBound
  /\ calls' = calls + 1
  /\ IF state = Playing THEN
       /\ lastEvent' = Event("play", 0, p, t, 0)
       /\ UNCHANGED <<plan, status, state, currentPlaylistIndex, currentTaskIndex,
                      abortController, aborted, pauseResolve, trav, active>>
     ELSE IF state = Paused /\ pauseResolve # 0 THEN
       /\ state' = Playing
       /\ trav' = [trav EXCEPT ![pauseResolve].pc = "resumed"]
       /\ active' = pauseResolve
       /\ pauseResolve' = 0
       /\ lastEvent' = Event("play", pauseResolve, p, t, 0)
       /\ UNCHANGED <<plan, status, currentPlaylistIndex, currentTaskIndex,
                      abortController, aborted>>
     ELSE
       /\ currentPlaylistIndex' = p
       /\ currentTaskIndex' = t
       /\ abortController' = abortController + 1
       /\ state' = Playing
       /\ trav' = [trav EXCEPT ![FreeSlot] =
                     [NewTrav("play", p, t) EXCEPT !.pc = "runLoop"]]
       /\ active' = FreeSlot
       /\ lastEvent' = Event("play", FreeSlot, p, t, 0)
       /\ UNCHANGED <<plan, status, aborted, pauseResolve>>
  /\ UNCHANGED parts

\* playPlaylist(plan, playlistIndex): await this.play(plan, playlistIndex, 0)
PlayPlaylist(p) == Play(p, 1)

\* A faulty variant of PlayTaskRefused that lets playTask through unless Playing.
PlayTaskRefusedBug(runnerState) == runnerState = Playing
\* playTask: if (this._state !== RunnerState.Idle) { ...; return; }
PlayTaskRefused(runnerState) == runnerState # Idle

\* playTask(plan, playlistIndex, taskIndex)
PlayTask(p, t) ==
  /\ active = 0 /\ calls < CallBound
  /\ calls' = calls + 1
  /\ IF PlayTaskRefused(state) THEN
       /\ lastEvent' = Event("playTask", 0, p, t, 0)
       /\ UNCHANGED <<plan, status, state, currentPlaylistIndex, currentTaskIndex,
                      abortController, aborted, pauseResolve, trav, active>>
     ELSE
       /\ abortController' = abortController + 1
       /\ state' = Playing
       /\ trav' = [trav EXCEPT ![FreeSlot] =
                     [NewTrav("task", p, t) EXCEPT !.pc = "executeTask", !.ti = t, !.k = t,
                                      !.child = [NoChildren(p) EXCEPT
                                                   ![t] = [pc |-> "sync", attempt |-> 1]]]]
       /\ active' = FreeSlot
       /\ lastEvent' = Event("playTask", FreeSlot, p, t, 0)
       /\ UNCHANGED <<plan, status, currentPlaylistIndex, currentTaskIndex,
                      aborted, pauseResolve>>
  /\ UNCHANGED parts

\* pause()
Pause ==
  /\ active = 0 /\ calls < CallBound
  /\ calls' = calls + 1
  /\ state' = IF state = Playing THEN Paused ELSE state
  /\ lastEvent' = Event("pause", 0, 0, 0, 0)
  /\ UNCHANGED <<plan, status, currentPlaylistIndex, currentTaskIndex,
                 abortController, aborted, pauseResolve, trav, active>>
  /\ UNCHANGED parts

\* What stop() found an invocation doing (kept for the properties only).
StopMark(r) ==
  IF r.pc = "free" THEN "no"
  ELSE IF r.stop = "inflight" \/ \E t \in DOMAIN r.child : r.child[t].pc = "inflight"
       THEN "inflight"
  ELSE "idle"

\* A faulty variant of StopIgnored: stop() acts in every state.
StopIgnoredBug(runnerState) == FALSE
\* stop: if (this._state === RunnerState.Idle) { return; }
StopIgnored(runnerState) == runnerState = Idle

\* stop()
Stop ==
  /\ active = 0 /\ calls < CallBound
  /\ calls' = calls + 1
  /\ lastEvent' = Event("stop", 0, 0, 0, 0)
  /\ IF StopIgnored(state) THEN
       UNCHANGED <<plan, status, state, currentPlaylistIndex, currentTaskIndex,
                   abortController, aborted, pauseResolve, trav, active>>
     ELSE
       /\ state' = Stopping
       /\ aborted' = aborted \cup {abortController}
       /\ trav' = [tr \in TravIds |->
                     [trav[tr] EXCEPT !.stop = IF tr = pauseResolve THEN "released"
                                               ELSE StopMark(trav[tr]),
                                      !.pc = IF tr = pauseResolve THEN "resumed" ELSE @]]
       /\ active' = pauseResolve
       /\ pauseResolve' = 0
       /\ UNCHANGED <<plan, status, currentPlaylistIndex, currentTaskIndex, abortController>>
  /\ UNCHANGED parts

\* A faulty variant of ResetStatus that leaves the tasks that are Running alone.
ResetStatusBug(st) == [pos \in DOMAIN st |-> IF st[pos] = Running THEN Running ELSE Pending]
\* resetPlan: t.status = TaskStatus.Pending for every task of every playlist
ResetStatus(st) == [pos \in DOMAIN st |-> Pending]

\* resetPlan(plan)
ResetPlan ==
  /\ active = 0 /\ calls < CallBound
  /\ calls' = calls + 1
  /\ status' = ResetStatus(status)
  /\ lastEvent' = Event("resetPlan", 0, 0, 0, 0)
  /\ UNCHANGED <<plan, state, currentPlaylistIndex, currentTaskIndex,
                 abortController, aborted, pauseResolve, trav, active>>
  /\ UNCHANGED parts


------------------------------------------------------------------------------
\* The synchronous code of one invocation, run while it is the active one.

\* runLoop: the head and the first lines of the body of the for-loop over playlists
RunLoop(tr) ==
  /\ active = tr /\ trav[tr].pc = "runLoop"
  /\ LET pi == trav[tr].pi IN
     IF pi > NumPlaylists THEN
       /\ lastEvent' = Event("all-completed", tr, 0, 0, 0)
       /\ trav' = [trav EXCEPT ![tr].pc = "finally"]
       /\ UNCHANGED <<currentPlaylistIndex>>
     ELSE
       /\ currentPlaylistIndex' = pi
       /\ lastEvent' = NoEvent
       /\ IF state = Stopping THEN
            trav' = [trav EXCEPT ![tr].pc = "finally"]
          ELSE IF plan.playlists[pi].parallel THEN
            trav' = [trav EXCEPT ![tr].pc = "parLaunch", ![tr].k = 1,
                                 ![tr].child = NoChildren(pi)]
          ELSE
            trav' = [trav EXCEPT ![tr].pc = "seqLoop",
                                 ![tr].ti = StartTask(pi, currentPlaylistIndex', currentTaskIndex),
                                 ![tr].child = NoChildren(pi)]
  /\ UNCHANGED <<plan, status, state, currentTaskIndex, abortController, aborted,
                 pauseResolve, active, calls>>
  /\ UNCHANGED parts

\* runPlaylistSequential: the head of the for-loop over tasks, the stop check and
\* the pause check
SeqLoop(tr) ==
  /\ active = tr /\ trav[tr].pc = "seqLoop"
  /\ lastEvent' = NoEvent
  /\ LET r == trav[tr] IN
     IF r.ti > Len(Tasks(r.pi)) \/ state = Stopping THEN
       /\ trav' = [trav EXCEPT ![tr].pc = "playlistCompleted"]
       /\ UNCHANGED <<pauseResolve, active>>
     ELSE IF state = Paused THEN
       /\ pauseResolve' = tr
       /\ trav' = [trav EXCEPT ![tr].pc = "pauseWait"]
       /\ active' = 0
     ELSE
       /\ trav' = [trav EXCEPT ![tr].pc = "seqTask"]
       /\ UNCHANGED <<pauseResolve, active>>
  /\ UNCHANGED <<plan, status, state, currentPlaylistIndex, currentTaskIndex,
                 abortController, aborted, calls>>
  /\ UNCHANGED parts

\* A faulty variant of AfterPauseWait without the stop check.
AfterPauseWaitBug(runnerState) == "seqTask"
\* if (this._state === RunnerState.Stopping) { return; } after the pause wait
AfterPauseWait(runnerState) ==
  IF runnerState = Stopping THEN "playlistCompleted" ELSE "seqTask"

\* runPlaylistSequential: the continuation of the pause wait
Resumed(tr) ==
  /\ active = tr /\ trav[tr].pc = "resumed"
  /\ lastEvent' = NoEvent
  /\ trav' = [trav EXCEPT ![tr].pc = AfterPauseWait(state)]
  /\ UNCHANGED <<plan, status, state, currentPlaylistIndex, currentTaskIndex,
                 abortController, aborted, pauseResolve, active, calls>>
  /\ UNCHANGED parts

\* runPlaylistSequential: the cursor, the dependency check, the skip branch
SeqTask(tr) ==
  /\ active = tr /\ trav[tr].pc = "seqTask"
  /\ LET r == trav[tr]
         pos == <<r.pi, r.ti>>
         task == TaskAt(r.pi, r.ti) IN
     /\ currentTaskIndex' = r.ti
     /\ IF HasDeps(task) /\ checkDependencies(task, status) = "skip" THEN
          /\ status' = [status EXCEPT ![pos] = Skipped]
          /\ lastEvent' = ResultEvent("task-completed", tr, r.pi, r.ti, 0, Skipped,
                                       SkipResult, FALSE)
          /\ trav' = [trav EXCEPT ![tr].pc = "seqLoop", ![tr].ti = r.ti + 1,
                                  ![tr].skipped = @ \cup {pos}]
        ELSE
          /\ lastEvent' = NoEvent
          /\ trav' = [trav EXCEPT ![tr].pc = "executeTask", ![tr].k = r.ti,
                                  ![tr].child[r.ti] = [pc |-> "sync", attempt |-> 1]]
          /\ UNCHANGED status
  /\ UNCHANGED <<plan, state, currentPlaylistIndex, abortController, aborted,
                 pauseResolve, active, calls>>
  /\ UNCHANGED parts

\* runPlaylistParallel: one element of playlist.tasks.map, then Promise.allSettled
\* A faulty variant of LaunchSkips that launches every task.
LaunchSkipsBug(task, st) == FALSE
\* runPlaylistParallel: the test that makes the map skip a task
LaunchSkips(task, st) == HasDeps(task) /\ checkDependencies(task, st) = "skip"

ParLaunch(tr) ==
  /\ active = tr /\ trav[tr].pc = "parLaunch"
  /\ LET r == trav[tr] IN
     IF r.k > Len(Tasks(r.pi)) THEN
       /\ lastEvent' = NoEvent
       /\ trav' = [trav EXCEPT ![tr].pc = IF AllSettled(r.child) THEN "playlistCompleted"
                                          ELSE "await"]
       /\ active' = IF AllSettled(r.child) THEN tr ELSE 0
       /\ UNCHANGED status
     ELSE IF LaunchSkips(TaskAt(r.pi, r.k), status) THEN
       /\ status' = [status EXCEPT ![<<r.pi, r.k>>] = Skipped]
       /\ lastEvent' = TaskEvent("task-output", tr, r.pi, r.k, 0, Skipped)
       /\ trav' = [trav EXCEPT ![tr].k = r.k + 1,
                               ![tr].child[r.k] = [pc |-> "settled", attempt |-> 0],
                               ![tr].skipped = @ \cup {<<r.pi, r.k>>}]
       /\ UNCHANGED active
     ELSE
       /\ lastEvent' = NoEvent
       /\ trav' = [trav EXCEPT ![tr].pc = "executeTask",
                               ![tr].child[r.k] = [pc |-> "sync", attempt |-> 1]]
       /\ UNCHANGED <<status, active>>
  /\ UNCHANGED <<plan, state, currentPlaylistIndex, currentTaskIndex,
                 abortController, aborted, pauseResolve, calls>>
  /\ UNCHANGED parts

\* A faulty variant of Launching: the map waits for each task.
LaunchingBug(r) == FALSE
\* TRUE while the call of executeTaskWithRetry is the synchronous one made by
\* playlist.tasks.map: at its first await control returns to the map.
Launching(r) == InParallel(r) /\ r.child[r.k].attempt = 1

\* executeTask up to the call of engine.runTask
ExecuteTask(tr) ==
  /\ active = tr /\ trav[tr].pc = "executeTask"
  /\ LET r == trav[tr]
         pos == <<r.pi, r.k>>
         launching == Launching(r) IN
     IF GetEngineThrows(r.pi, r.k) THEN
       /\ lastEvent' = NoEvent
       /\ trav' = IF InParallel(r)
                  THEN [trav EXCEPT ![tr].pc = "parLaunch", ![tr].k = r.k + 1,
                                    ![tr].child[r.k].pc = "rejected"]
                  ELSE [trav EXCEPT ![tr].pc = "catch"]
       /\ UNCHANGED <<status, active>>
     ELSE
       /\ status' = [status EXCEPT ![pos] = Running]
       /\ lastEvent' = [TaskEvent("task-started", tr, r.pi, r.k, r.child[r.k].attempt, Running)
                         EXCEPT !.engine = EngineId(r.pi, r.k)]
       /\ trav' = [trav EXCEPT ![tr].pc = IF launching THEN "parLaunch" ELSE "await",
                               ![tr].k = IF launching THEN r.k + 1 ELSE r.k,
                               ![tr].child[r.k].pc = "inflight",
                               ![tr].invocations[pos] = @ + 1]
       /\ active' = IF launching THEN tr ELSE 0
  /\ UNCHANGED <<plan, state, currentPlaylistIndex, currentTaskIndex,
                 abortController, aborted, pauseResolve, calls>>
  /\ UNCHANGED parts

\* executeTask after engine.runTask (and the verify command) settled: the final
\* status, the event, the history entry
Settle(tr, k, result) ==
  /\ status' = [status EXCEPT ![<<trav[tr].pi, k>>] =
                   IF result.exitCode = 0 THEN Completed ELSE Failed]
  /\ lastEvent' = [ResultEvent(IF result.exitCode = 0 THEN "task-completed" ELSE "task-failed",
                               tr, trav[tr].pi, k, trav[tr].child[k].attempt,
                               IF result.exitCode = 0 THEN Completed ELSE Failed,
                               result, TRUE)
                     EXCEPT !.engine = EngineId(trav[tr].pi, k)]
  /\ trav' = [trav EXCEPT ![tr].pc = "afterAttempt", ![tr].k = k,
                          ![tr].child[k] = [pc |-> "returned", attempt |-> @.attempt],
                          ![tr].nHistory = @ + 1]
  /\ active' = tr

\* the close event of the engine's process: runTask resolves with its exit code
EngineResolve(tr, k, exitCode) ==
  /\ active = 0 /\ trav[tr].pc # "free"
  /\ k \in DOMAIN trav[tr].child /\ trav[tr].child[k].pc = "inflight"
  /\ IF AdapterResult(exitCode).exitCode = 0 /\ TaskAt(trav[tr].pi, k).verifyCommand THEN
       /\ trav' = [trav EXCEPT ![tr].child[k] =
                     [pc |-> "verifying", attempt |-> @.attempt,
                      result |-> AdapterResult(exitCode)]]
       /\ lastEvent' = NoEvent
       /\ UNCHANGED <<status, active>>
     ELSE Settle(tr, k, AdapterResult(exitCode))
  /\ UNCHANGED <<plan, state, currentPlaylistIndex, currentTaskIndex,
                 abortController, aborted, pauseResolve, calls>>
  /\ UNCHANGED parts

\* the error event of the engine's process: runTask rejects, executeTask's catch
EngineReject(tr, k, errMsg) ==
  /\ active = 0 /\ trav[tr].pc # "free"
  /\ k \in DOMAIN trav[tr].child /\ trav[tr].child[k].pc = "inflight"
  /\ Settle(tr, k, ErrorResult(errMsg))
  /\ UNCHANGED <<plan, state, currentPlaylistIndex, currentTaskIndex,
                 abortController, aborted, pauseResolve, calls>>
  /\ UNCHANGED parts

\* the close/error event of the verify command's process
VerifyClose(tr, k, verifyResult) ==
  /\ active = 0 /\ trav[tr].pc # "free"
  /\ k \in DOMAIN trav[tr].child /\ trav[tr].child[k].pc = "verifying"
  /\ Settle(tr, k, VerifyOutcome(trav[tr].child[k].result, verifyResult))
  /\ UNCHANGED <<plan, state, currentPlaylistIndex, currentTaskIndex,
                 abortController, aborted, pauseResolve, calls>>
  /\ UNCHANGED parts

\* A faulty variant of RetryDecision with one attempt too many.
RetryDecisionBug(taskStatus, runnerState, attempt, maxAttempts) ==
  IF taskStatus = Completed \/ runnerState = Stopping THEN "return"
  ELSE IF attempt <= maxAttempts THEN "retry"
  ELSE "return"
\* executeTaskWithRetry after an attempt: "return" or "retry"
RetryDecision(taskStatus, runnerState, attempt, maxAttempts) ==
  IF taskStatus = Completed \/ runnerState = Stopping THEN "return"
  ELSE IF attempt < maxAttempts THEN "retry"
  ELSE "return"

\* executeTaskWithRetry: the lines after await this.executeTask(...).  lastEvent
\* notes the decision ("retry", "retry-return") with the status it read.
AfterAttempt(tr) ==
  /\ active = tr /\ trav[tr].pc = "afterAttempt"
  /\ LET r == trav[tr]
         pos == <<r.pi, r.k>>
         task == TaskAt(r.pi, r.k)
         settled == [r.child EXCEPT ![r.k].pc = "settled"] IN
     IF RetryDecision(status[pos], state, r.child[r.k].attempt, MaxAttempts(task)) = "retry" THEN
       /\ lastEvent' = TaskEvent("retry", tr, r.pi, r.k, r.child[r.k].attempt, status[pos])
       /\ status' = [status EXCEPT ![pos] = Pending]
       /\ trav' = [trav EXCEPT ![tr].pc = "await", ![tr].child[r.k].pc = "retrySleep"]
       /\ active' = 0
     ELSE
       /\ lastEvent' = TaskEvent("retry-return", tr, r.pi, r.k, r.child[r.k].attempt, status[pos])
       /\ UNCHANGED status
       /\ IF r.kind = "task" THEN
            /\ trav' = [trav EXCEPT ![tr].pc = "finally", ![tr].child = settled]
            /\ UNCHANGED active
          ELSE IF InParallel(r) THEN
            /\ trav' = [trav EXCEPT ![tr].pc = IF AllSettled(settled) THEN "playlistCompleted"
                                               ELSE "await",
                                    ![tr].child = settled]
            /\ active' = IF AllSettled(settled) THEN tr ELSE 0
          ELSE
            /\ trav' = [trav EXCEPT ![tr].pc = "afterRetry", ![tr].child = settled]
            /\ UNCHANGED active
  /\ UNCHANGED <<plan, state, currentPlaylistIndex, currentTaskIndex,
                 abortController, aborted, pauseResolve, calls>>
  /\ UNCHANGED parts

\* the timer of await this.sleep(2000) in executeTaskWithRetry: the next attempt
RetryTimer(tr, k) ==
  /\ active = 0 /\ trav[tr].pc # "free"
  /\ k \in DOMAIN trav[tr].child /\ trav[tr].child[k].pc = "retrySleep"
  /\ trav' = [trav EXCEPT ![tr].pc = "executeTask", ![tr].k = k,
                          ![tr].child[k] = [pc |-> "sync", attempt |-> @.attempt + 1]]
  /\ active' = tr
  /\ lastEvent' = NoEvent
  /\ UNCHANGED <<plan, status, state, currentPlaylistIndex, currentTaskIndex,
                 abortController, aborted, pauseResolve, calls>>
  /\ UNCHANGED parts

\* runPlaylistSequential: the autoplay delay after a task
AfterRetry(tr) ==
  /\ active = tr /\ trav[tr].pc = "afterRetry"
  /\ lastEvent' = NoEvent
  /\ LET r == trav[tr] IN
     IF plan.playlists[r.pi].autoplay /\ r.ti < Len(Tasks(r.pi)) THEN
       /\ trav' = [trav EXCEPT ![tr].pc = "autoplaySleep"]
       /\ active' = 0
     ELSE
       /\ trav' = [trav EXCEPT ![tr].pc = "seqLoop", ![tr].ti = r.ti + 1]
       /\ UNCHANGED active
  /\ UNCHANGED <<plan, status, state, currentPlaylistIndex, currentTaskIndex,
                 abortController, aborted, pauseResolve, calls>>
  /\ UNCHANGED parts

\* the timer of await this.sleep(delay) in runPlaylistSequential
AutoplayTimer(tr) ==
  /\ active = 0 /\ trav[tr].pc = "autoplaySleep"
  /\ trav' = [trav EXCEPT ![tr].pc = "seqLoop", ![tr].ti = @ + 1]
  /\ active' = tr
  /\ lastEvent' = NoEvent
  /\ UNCHANGED <<plan, status, state, currentPlaylistIndex, currentTaskIndex,
                 abortController, aborted, pauseResolve, calls>>
  /\ UNCHANGED parts

\* runLoop: this.emit('playlist-completed', playlist); pi++
PlaylistCompleted(tr) ==
  /\ active = tr /\ trav[tr].pc = "playlistCompleted"
  /\ lastEvent' = Event("playlist-completed", tr, trav[tr].pi, 0, 0)
  /\ trav' = [trav EXCEPT ![tr].pc = "runLoop", ![tr].pi = @ + 1]
  /\ UNCHANGED <<plan, status, state, currentPlaylistIndex, currentTaskIndex,
                 abortController, aborted, pauseResolve, active, calls>>
  /\ UNCHANGED parts

\* the catch blocks of play() and playTask()
Catch(tr) ==
  /\ active = tr /\ trav[tr].pc = "catch"
  /\ lastEvent' = IF trav[tr].kind = "task" \/ state # Stopping
                  THEN Event("error", tr, 0, 0, 0) ELSE NoEvent
  /\ trav' = [trav EXCEPT ![tr].pc = "finally"]
  /\ UNCHANGED <<plan, status, state, currentPlaylistIndex, currentTaskIndex,
                 abortController, aborted, pauseResolve, active, calls>>
  /\ UNCHANGED parts

\* the finally blocks of play() and playTask(): this.setState(RunnerState.Idle)
Finally(tr) ==
  /\ active = tr /\ trav[tr].pc = "finally"
  /\ state' = Idle
  /\ lastEvent' = Event("finally", tr, 0, 0, 0)
  /\ trav' = [trav EXCEPT ![tr] = FreeTrav]
  /\ active' = 0
  /\ UNCHANGED <<plan, status, currentPlaylistIndex, currentTaskIndex,
                 abortController, aborted, pauseResolve, calls>>
  /\ UNCHANGED parts

------------------------------------------------------------------------------

Next ==
  \/ \E pos \in Positions : Play(pos[1], pos[2])
  \/ \E p \in 1..NumPlaylists : PlayPlaylist(p)
  \/ \E pos \in Positions : PlayTask(pos[1], pos[2])
  \/ Pause
  \/ Stop
  \/ ResetPlan
  \/ \E tr \in TravIds : RunLoop(tr)
  \/ \E tr \in TravIds : SeqLoop(tr)
  \/ \E tr \in TravIds : Resumed(tr)
  \/ \E tr \in TravIds : SeqTask(tr)
  \/ \E tr \in TravIds : ParLaunch(tr)
  \/ \E tr \in TravIds : ExecuteTask(tr)
  \/ \E tr \in TravIds : \E k \in DOMAIN trav[tr].child : \E exitCode \in {0, 1} :
         EngineResolve(tr, k, exitCode)
  \/ \E tr \in TravIds : \E k \in DOMAIN trav[tr].child : \E errMsg \in ErrorMessages :
         EngineReject(tr, k, errMsg)
  \/ \E tr \in TravIds : \E k \in DOMAIN trav[tr].child : \E verifyResult \in {0, 1} :
         VerifyClose(tr, k, verifyResult)
  \/ \E tr \in TravIds : AfterAttempt(tr)
  \/ \E tr \in TravIds : \E k \in DOMAIN trav[tr].child : RetryTimer(tr, k)
  \/ \E tr \in TravIds : AfterRetry(tr)
  \/ \E tr \in TravIds : AutoplayTimer(tr)
  \/ \E tr \in TravIds : PlaylistCompleted(tr)
  \/ \E tr \in TravIds : Catch(tr)
  \/ \E tr \in TravIds : Finally(tr)

Spec == Init /\ [][Next]_vars

\* Everything but the calls of the API: the code that is running goes on, every
\* spawned process closes, every timer fires.
Progress ==
  \/ \E tr \in TravIds :
        \/ RunLoop(tr) \/ SeqLoop(tr) \/ Resumed(tr) \/ SeqTask(tr) \/ ParLaunch(tr)
        \/ ExecuteTask(tr) \/ AfterAttempt(tr) \/ AfterRetry(tr) \/ AutoplayTimer(tr)
        \/ PlaylistCompleted(tr) \/ Catch(tr) \/ Finally(tr)
  \/ \E tr \in TravIds : \E k \in DOMAIN trav[tr].child :
        \/ \E exitCode \in {0, 1} : EngineResolve(tr, k, exitCode)
        \/ \E errMsg \in ErrorMessages : EngineReject(tr, k, errMsg)
        \/ \E verifyResult \in {0, 1} : VerifyClose(tr, k, verifyResult)
        \/ RetryTimer(tr, k)

FairSpec == Spec /\ WF_vars(Progress)


------------------------------------------------------------------------------
\* Vocabulary of the properties

Terminal == {Completed, Failed, Skipped}
PlaylistPositions(p) == {<<p, t>> : t \in 1..Len(Tasks(p))}
Started(tr) == {pos \in Positions : trav[tr].invocations[pos] > 0}
AllRegistered == \A pos \in Positions : ~GetEngineThrows(pos[1], pos[2])
DepSatisfied(depId) ==
  \E pos \in Positions : pos = FindTask(depId) /\ status[pos] = Completed
DepsOf(p, t) == {TaskAt(p, t).dependsOn[i] : i \in 1..Len(TaskAt(p, t).dependsOn)}

RECURSIVE SumOver(_, _)
SumOver(f, S) ==
  IF S = {} THEN 0
  ELSE LET x == CHOOSE x \in S : TRUE IN f[x] + SumOver(f, S \ {x})

\* The step emitted a task-started event for the first attempt of a task.
StartedTask == lastEvent.type = "task-started" /\ lastEvent.attempt = 1
\* The step marked a task Skipped (the sequential branch emits task-completed with a
\* synthetic result, the parallel branch emits task-output only).
SkippedTask ==
  \/ lastEvent.type = "task-completed" /\ lastEvent.attempt = 0
  \/ lastEvent.type = "task-output" /\ lastEvent.attempt = 0

------------------------------------------------------------------------------
\* C1: when playlist-completed fires in a run of play() that was not stopped, every
\* task of the playlist is Completed, Failed or Skipped and the adapter was invoked
\* for exactly the tasks that are not Skipped.  Stated for a run from the start of
\* the plan during which no other call was made, on a plan whose engines are all
\* registered.
C1_PlaylistCompleted ==
  ( /\ lastEvent.type = "playlist-completed"
    /\ calls = 1
    /\ AllRegistered
    /\ trav[lastEvent.tr].startP = 1 /\ trav[lastEvent.tr].startT = 1 )
  => \A pos \in PlaylistPositions(lastEvent.p) :
       /\ status[pos] \in Terminal
       /\ (pos \in Started(lastEvent.tr)) <=> (status[pos] # Skipped)

\* C2: a traversal starts a task that declares dependsOn only when every listed
\* dependency exists and is Completed at that moment; otherwise it marks the task
\* Skipped without invoking the adapter or entering the retry procedure, and goes
\* on with the next task; a task is never both skipped and run by one traversal.
C2_DependencyGate ==
  /\ ( StartedTask /\ trav[lastEvent.tr].kind = "play" )
       => \A d \in DepsOf(lastEvent.p, lastEvent.t) : DepSatisfied(d)
  /\ SkippedTask
       => LET r == trav[lastEvent.tr]
              pos == <<lastEvent.p, lastEvent.t>> IN
          /\ status[pos] = Skipped
          /\ \E d \in DepsOf(lastEvent.p, lastEvent.t) : ~DepSatisfied(d)
          /\ r.invocations[pos] = 0
          /\ r.child[lastEvent.t].attempt = 0
          /\ r.child[lastEvent.t].pc \in {"none", "settled"}
          /\ IF InParallel(r) THEN r.pc = "parLaunch" /\ r.k = lastEvent.t + 1
             ELSE r.pc = "seqLoop" /\ r.ti = lastEvent.t + 1
  /\ \A tr \in Live : trav[tr].skipped \cap Started(tr) = {}

\* C2 witness: the skip propagated along the chain a <- b <- c after a failed.
C2_Witness ==
  /\ plan = PlanChain
  /\ SkippedTask /\ lastEvent.p = 1 /\ lastEvent.t = 3
  /\ status[<<1, 1>>] = Failed /\ status[<<1, 2>>] = Skipped /\ status[<<1, 3>>] = Skipped
  /\ trav[lastEvent.tr].invocations[<<1, 1>>] = 2

\* C3 as claimed: the retry procedure returns with the task Failed only if all
\* retryCount + 1 attempts were made.
C3_FailedOnlyAfterAllAttempts ==
  ( lastEvent.type = "retry-return" /\ lastEvent.status = Failed )
  => lastEvent.attempt = MaxAttempts(TaskAt(lastEvent.p, lastEvent.t))

\* C3 amended: one invocation of play()/playTask() calls the adapter at most
\* retryCount + 1 times for a task; an attempt that ends Completed is never followed
\* by a retry; the procedure returns with the status of the last attempt, which is
\* Failed only if all retryCount + 1 attempts were made or the runner is Stopping.
C3_RetryBound ==
  /\ \A tr \in Live : \A pos \in Positions :
       trav[tr].invocations[pos] <= MaxAttempts(TaskAt(pos[1], pos[2]))
  /\ lastEvent.type = "retry" => lastEvent.status # Completed
  /\ lastEvent.type = "retry-return"
       => /\ lastEvent.status \in {Completed, Failed}
          /\ status[<<lastEvent.p, lastEvent.t>>] = lastEvent.status
          /\ lastEvent.attempt = trav[lastEvent.tr].invocations[<<lastEvent.p, lastEvent.t>>]
          /\ lastEvent.status = Failed
               => \/ lastEvent.attempt = MaxAttempts(TaskAt(lastEvent.p, lastEvent.t))
                  \/ state = Stopping

\* C3 witness: a task with a retry budget of 1 returned Failed after two attempts
\* while the runner was not stopping.
C3_Witness ==
  /\ lastEvent.type = "retry-return" /\ lastEvent.status = Failed
  /\ TaskAt(lastEvent.p, lastEvent.t).retryCount = 1
  /\ lastEvent.attempt = 2
  /\ state = Playing

\* C4: an invocation that stop() found with an adapter call in flight starts no
\* further task.
C4_NoStartAfterStop ==
  StartedTask => trav[lastEvent.tr].stop # "inflight"

\* C5: while the runner is Paused no task is started (a retry of the task that was
\* in flight apart).
C5_NoStartWhilePaused ==
  StartedTask => state # Paused

\* C6: at most one invocation of play()/playTask() is live at any moment.
C6_SingleTraversal == Cardinality(Live) <= 1

\* C7: no two adapter calls for tasks of the same sequential playlist are in flight
\* at the same time.
InFlight(p) ==
  {<<tr, k>> \in TravIds \X (1..Len(Tasks(p))) :
     /\ trav[tr].pi = p /\ k \in DOMAIN trav[tr].child
     /\ trav[tr].child[k].pc = "inflight"}
C7_NoOverlapInSequentialPlaylist ==
  \A p \in 1..NumPlaylists :
    ~plan.playlists[p].parallel => Cardinality(InFlight(p)) <= 1

\* C8: when a run of the full plan, during which no other call was made, ends with
\* all-completed, it has appended one history entry per adapter attempt and one per
\* Skipped task.
C8_HistoryCountsAttemptsAndSkips ==
  ( /\ lastEvent.type = "all-completed"
    /\ calls = 1
    /\ trav[lastEvent.tr].startP = 1 /\ trav[lastEvent.tr].startT = 1 )
  => LET r == trav[lastEvent.tr] IN
     r.nHistory = SumOver(r.invocations, Positions) + Cardinality(r.skipped)

\* C9: every change of the runner state follows one of the listed edges.
StateEdges ==
  {<<Idle, Playing>>, <<Playing, Paused>>, <<Paused, Playing>>, <<Playing, Stopping>>,
   <<Paused, Stopping>>, <<Stopping, Idle>>, <<Playing, Idle>>}
C9_StateEdges == [][state' # state => <<state, state'>> \in StateEdges]_vars

\* C10: play() called in state Paused makes the state Playing and resumes the
\* suspended traversal; it starts no fresh one.
C10_PlayWhilePausedResumes ==
  [][ ( state = Paused /\ lastEvent'.type = "play" /\ calls' = calls + 1 )
      => ( state' = Playing /\ Live' = Live /\ active' \in Live ) ]_vars


\* The step ended an attempt of a task: task-completed or task-failed emitted by
\* executeTask.
EndedAttempt ==
  lastEvent.type \in {"task-completed", "task-failed"} /\ lastEvent.attempt >= 1

C12_ParallelSettles ==
  /\ ( lastEvent.type = "playlist-completed" /\ plan.playlists[lastEvent.p].parallel )
       => LET r == trav[lastEvent.tr] IN
          \A k \in DOMAIN r.child :
            LET pos == <<lastEvent.p, k>> IN
            /\ r.child[k].pc \in {"settled", "rejected"}
            /\ ( calls = 1 /\ r.invocations[pos] >= 1 )
                 => /\ status[pos] \in {Completed, Failed}
                    /\ status[pos] = Failed
                         => r.invocations[pos] = MaxAttempts(TaskAt(pos[1], pos[2]))
  /\ ( EndedAttempt /\ lastEvent.status = Failed /\ InParallel(trav[lastEvent.tr]) /\ calls = 1 )
       => aborted = {}

\* C12 witness: a parallel playlist completes with one task Failed after its two
\* attempts and its sibling Completed.
C12_Witness ==
  /\ lastEvent.type = "playlist-completed" /\ plan = PlanParSeq /\ lastEvent.p = 1
  /\ calls = 1
  /\ status[<<1, 1>>] = Failed /\ trav[lastEvent.tr].invocations[<<1, 1>>] = 2
  /\ status[<<1, 2>>] = Completed


InSeq(x, q) == \E i \in 1..Len(q) : q[i] = x

\* What holds of the result of every ended attempt.
ResultShape ==
  EndedAttempt =>
    LET task == TaskAt(lastEvent.p, lastEvent.t)
        result == lastEvent.result IN
    /\ lastEvent.status = (IF result.exitCode = 0 THEN Completed ELSE Failed)
    /\ ~task.verifyCommand => ~InSeq(VerifyMarker, result.stderr)
    /\ InSeq(VerifyMarker, result.stderr) => lastEvent.status = Failed
    /\ lastEvent.status = Completed => result = AdapterResult(0)

\* C13: the verify command is run exactly for the attempts whose adapter result has
\* exit code 0 and whose task declares one; an attempt ends Completed only with exit
\* code 0 and, if the task declares a verify command, only when that command exited
\* 0; a non-zero verification exit makes the attempt Failed, keeps the adapter's
\* stdout and appends the marker to its stderr.
C13_Verification ==
  [][ /\ ResultShape'
      /\ \A tr \in TravIds : \A k \in DOMAIN trav[tr].child :
           LET c == trav[tr].child[k]
               d == trav'[tr].child[k]
               task == TaskAt(trav[tr].pi, k) IN
           /\ ( c.pc = "inflight" /\ d.pc = "verifying" )
                => task.verifyCommand /\ d.result = AdapterResult(0)
           /\ ( c.pc = "inflight" /\ d.pc = "returned" /\ task.verifyCommand )
                => lastEvent'.status = Failed /\ lastEvent'.result.exitCode # 0
                   /\ ~InSeq(VerifyMarker, lastEvent'.result.stderr)
           /\ ( c.pc = "verifying" /\ d.pc = "returned" )
                => \/ lastEvent'.status = Completed /\ lastEvent'.result = c.result
                   \/ /\ lastEvent'.status = Failed
                      /\ lastEvent'.result.stdout = c.result.stdout
                      /\ lastEvent'.result.stderr = c.result.stderr \o <<VerifyMarker>>
                      /\ lastEvent'.result.exitCode # 0
                      /\ lastEvent'.recorded
    ]_vars

\* C13 witness: an attempt that the verify command made Failed.
C13_Witness ==
  /\ EndedAttempt /\ lastEvent.status = Failed
  /\ TaskAt(lastEvent.p, lastEvent.t).verifyCommand
  /\ lastEvent.result.stdout = "out"
  /\ lastEvent.result.stderr = <<"err", VerifyMarker>>
  /\ lastEvent.recorded


\* The tasks a traversal has dealt with: started or marked Skipped.
Processed(tr) == Started(tr) \cup trav[tr].skipped

\* C14: in a run of play() during which no other call was made, on a plan whose
\* engines are all registered, playlist-completed fires for a playlist only after
\* every task of it from the start cursor on has been dealt with and has finished,
\* and all-completed fires only after every playlist from the start cursor on has
\* been completed so.
C14_CompletionEvents ==
  ( calls = 1 /\ AllRegistered /\ lastEvent.type \in {"playlist-completed", "all-completed"} )
  => LET r == trav[lastEvent.tr] IN
     \A pos \in Positions :
       ( /\ IF lastEvent.type = "playlist-completed" THEN pos[1] = lastEvent.p ELSE TRUE
         /\ pos[1] > r.startP \/ (pos[1] = r.startP /\ pos[2] >= r.startT) )
       => pos \in Processed(lastEvent.tr) /\ status[pos] \in Terminal


\* C15: no adapter invocation, neither a retry attempt nor a next task, is started
\* while the runner is Stopping.
C15_NoStartWhileStopping ==
  lastEvent.type = "task-started" => state # Stopping


\* A traversal that stop() released from its pause wait is unwinding: its code runs
\* to the end without interruption, the state stays Stopping, no task is started
\* or skipped.
Unwinding ==
  \A tr \in TravIds :
    trav[tr].stop = "released"
    => /\ active = tr /\ state = Stopping /\ pauseResolve = 0
       /\ trav[tr].pc \in {"resumed", "playlistCompleted", "runLoop", "finally"}
       /\ lastEvent.type # "task-started" /\ ~SkippedTask

\* The order in which a released invocation passes its remaining positions.
UnwindRank(pc) ==
  CASE pc = "resumed" -> 1
    [] pc = "playlistCompleted" -> 2
    [] pc = "runLoop" -> 3
    [] pc = "finally" -> 4
    [] OTHER -> 0

\* C16: stop() called in state Paused while a traversal is suspended in its pause
\* wait releases that wait and sets the state Stopping; the released traversal
\* starts no task, every step it takes brings it nearer to its end, and its last
\* step sets the state Idle.
C16_StopWhilePaused ==
  [][ /\ ( lastEvent'.type = "stop" /\ state = Paused /\ pauseResolve # 0 )
           => /\ state' = Stopping /\ pauseResolve' = 0 /\ active' = pauseResolve
              /\ trav'[pauseResolve].pc = "resumed"
              /\ trav'[pauseResolve].stop = "released"
      /\ Unwinding'
      /\ \A tr \in TravIds :
           /\ ( trav[tr].stop = "released" /\ trav'[tr].stop = "released" )
              => UnwindRank(trav'[tr].pc) > UnwindRank(trav[tr].pc)
           /\ ( trav[tr].stop = "released" /\ trav'[tr].stop # "released" )
              => state' = Idle /\ trav'[tr].pc = "free" ]_vars

\* C16 witness: a traversal released from its pause wait by stop() is about to end.
C16_Witness ==
  \E tr \in TravIds :
    trav[tr].stop = "released" /\ trav[tr].pc = "finally" /\ state = Stopping


\* C17: if every pause() is eventually followed by a play() or a stop(), every
\* invocation of play()/playTask() eventually ends, with the runner in state Idle.
C17_EveryCycleEnds ==
  [](lastEvent.type = "pause" => <>(lastEvent.type \in {"play", "stop"}))
  => \A tr \in TravIds :
       (trav[tr].pc # "free") ~> (trav[tr].pc = "free" /\ state = Idle)


\* C18: when a run of play() from the start of the plan, during which no other call
\* was made, on a plan whose engines are all registered, ends with all-completed,
\* then after every task of a sequential playlist that ended Failed every later
\* task of the plan has been dealt with, and has been executed if it declares no
\* dependency.
C18_FailureDoesNotHalt ==
  ( /\ lastEvent.type = "all-completed" /\ calls = 1 /\ AllRegistered
    /\ trav[lastEvent.tr].startP = 1 /\ trav[lastEvent.tr].startT = 1 )
  => \A f \in Started(lastEvent.tr) :
       ( status[f] = Failed /\ ~plan.playlists[f[1]].parallel )
       => \A pos \in Positions :
            Before(f, pos)
            => /\ pos \in Processed(lastEvent.tr)
               /\ ~HasDeps(TaskAt(pos[1], pos[2])) => pos \in Started(lastEvent.tr)


\* C19: a task whose engine id has no registered adapter ends the run: the playlist
\* it belongs to is not reported completed, and no task of the playlist is started
\* after the fault.
C19_FaultEndsRun ==
  /\ lastEvent.type = "playlist-completed"
       => \A k \in DOMAIN trav[lastEvent.tr].child :
            trav[lastEvent.tr].child[k].pc # "rejected"
  /\ StartedTask
       => \A k \in DOMAIN trav[lastEvent.tr].child :
            trav[lastEvent.tr].child[k].pc # "rejected"

\* C20: when runTask rejects, the step of executeTask's catch sets the task Failed,
\* emits task-failed with exit code 1 and the error text first in stderr, appends
\* one history entry with that status and result, and hands control back to the
\* retry procedure; an error event is emitted only on a plan with an engine id that
\* has no adapter.
C20_RejectionIsLocal ==
  [][ /\ \A tr \in TravIds : \A k \in DOMAIN trav[tr].child :
           ( /\ trav[tr].child[k].pc = "inflight" /\ trav'[tr].child[k].pc = "returned"
             /\ lastEvent'.result.durationMs = "0" )
           => /\ lastEvent'.type = "task-failed" /\ lastEvent'.tr = tr
              /\ lastEvent'.p = trav[tr].pi /\ lastEvent'.t = k
              /\ status'[<<trav[tr].pi, k>>] = Failed /\ lastEvent'.status = Failed
              /\ lastEvent'.result.exitCode = 1
              /\ lastEvent'.result.stdout = ""
              /\ Len(lastEvent'.result.stderr) >= 1
              /\ lastEvent'.result.stderr[1] \in ErrorMessages
              /\ lastEvent'.recorded
              /\ trav'[tr].nHistory = trav[tr].nHistory + 1
              /\ trav'[tr].pc = "afterAttempt" /\ active' = tr
      /\ lastEvent'.type = "error" => ~AllRegistered'
      /\ ( lastEvent.type = "task-failed" /\ lastEvent.result.durationMs = "0" )
           => /\ lastEvent'.type \in {"retry", "retry-return"}
              /\ ( lastEvent.attempt < MaxAttempts(TaskAt(lastEvent.p, lastEvent.t))
                   /\ state # Stopping ) => lastEvent'.type = "retry"
    ]_vars

\* C20 witness: the rejected first attempt of a task that has a retry left.
C20_Witness ==
  /\ lastEvent.type = "task-failed" /\ lastEvent.attempt = 1
  /\ TaskAt(lastEvent.p, lastEvent.t).retryCount = 1
  /\ lastEvent.result.stderr = <<"Failed to start: spawn ENOENT", "Hint: not installed">>
  /\ lastEvent.result.exitCode = 1
  /\ lastEvent.recorded
  /\ trav[lastEvent.tr].nHistory = 1
  /\ trav[lastEvent.tr].pc = "afterAttempt"

------------------------------------------------------------------------------
\* runCli was called and the program was started.
CliStarted == cli.pc = "called" /\ cli.proc \notin {"nostart", "errored"} /\ cli.code # SpawnErrno
\* result.exitCode is an integer
DefiniteCode(exitCode) == Len(exitCode) = 1 /\ exitCode[1] \in Int

\* C21: a call of runCli whose signal fires before the process exits, be it before
\* the call, has its process killed and resolves, never rejects, with an integer
\* exit code that is not 0, and 1 when the process was killed; a program that
\* cannot be started makes the call reject and never resolve.
C21_CancelledCallResolvesNonZero ==
  /\ ( CliStarted /\ cli.abortedAt \in {"beforeCall", "running"} )
       => /\ cli.promise # "rejected"
          /\ cli.promise = "resolved"
               => cli.killed /\ DefiniteCode(cli.exitCode) /\ cli.exitCode # <<0>>
  /\ ( cli.promise = "resolved" /\ cli.killed ) => cli.exitCode = <<1>>
  /\ ( cli.pc = "called" /\ ~CliStarted ) => cli.promise # "resolved"
  /\ cli.promise = "rejected" => ~CliStarted


\* The first of the task's, the playlist's and the plan's engine that is set.
Overrides(p, t) == <<TaskAt(p, t).engine, plan.playlists[p].engine, plan.defaultEngine>>
FirstSet(q) == q[CHOOSE i \in 1..Len(q) : q[i] # Unset /\ \A j \in 1..(i - 1) : q[j] = Unset]

\* C22: the engine id of an attempt, handed to the registry when the attempt starts
\* and written to its history entry when it ends, is the task's engine if set, else
\* the playlist's if set, else the plan's default; it has a registered adapter.
C22_EngineSelection ==
  ( lastEvent.type = "task-started" \/ EndedAttempt )
  => /\ lastEvent.engine = FirstSet(Overrides(lastEvent.p, lastEvent.t))
     /\ lastEvent.engine \in RegisteredEngines
     /\ EndedAttempt => lastEvent.recorded

\* C22 witness: the history entry of a task whose engine and whose playlist's
\* engine are both set, to different ids.
C22_Witness ==
  /\ EndedAttempt /\ lastEvent.recorded
  /\ TaskAt(lastEvent.p, lastEvent.t).engine = "gemini"
  /\ plan.playlists[lastEvent.p].engine = "codex"
  /\ lastEvent.engine = "gemini"


\* The adapter registered last under an id, NoAdapter when there is none.
LastRegistered(log, id) ==
  LET regs == {i \in 1..Len(log) : log[i].id = id}
  IN IF regs = {} THEN NoAdapter ELSE log[CHOOSE i \in regs : \A j \in regs : j <= i]

\* C23: the registry holds, for every id, the adapter registered last under it;
\* getEngine returns that adapter and throws exactly for an id never registered;
\* checkEngineAvailability returns one entry for each distinct id it was asked
\* for, not available and with an empty command for an id never registered;
\* neither call changes the registry.
C23_Registry ==
  /\ [](/\ \A id \in EngineIds : registry.map[id] = LastRegistered(registry.log, id)
        /\ registry.ret.op = "getEngine"
             => /\ registry.ret.throws <=> LastRegistered(registry.log, registry.ret.id) = NoAdapter
                /\ registry.ret.adapter = LastRegistered(registry.log, registry.ret.id)
        /\ registry.ret.op = "availability"
             => /\ DOMAIN registry.ret.results
                     = {registry.ret.ids[i] : i \in 1..Len(registry.ret.ids)}
                /\ \A id \in DOMAIN registry.ret.results :
                     LastRegistered(registry.log, id) = NoAdapter
                     => /\ ~registry.ret.results[id].available
                        /\ registry.ret.results[id].command = "")
  /\ [][ registry'.ret.op \in {"getEngine", "checkEngineAvailability", "availability"}
         => registry'.map = registry.map /\ registry'.log = registry.log ]_vars

\* C23 witness: getEngine returns the adapter that replaced an earlier one.
C23_Witness ==
  /\ registry.ret.op = "getEngine" /\ registry.ret.id = "codex"
  /\ registry.log = <<Adapter("codex", "Codex", "codex"), Adapter("codex", "Test Codex", "")>>
  /\ registry.ret.adapter = Adapter("codex", "Test Codex", "")


\* q is the last n elements of r, in r's order.
IsSuffix(q, r) ==
  Len(q) <= Len(r) /\ \A i \in 1..Len(q) : q[i] = r[Len(r) - Len(q) + i]
Min(a, b) == IF a < b THEN a ELSE b
\* q lists the elements of r that satisfy the test, last first.
NewestFirst(q, r, taskIds) ==
  /\ Len(q) = Cardinality({i \in 1..Len(r) : r[i].taskId \in taskIds})
  /\ \A i \in 1..Len(q) : q[i].taskId \in taskIds /\ InSeq(q[i], r)
  /\ \A i, j \in 1..Len(q) : i < j => q[i].id > q[j].id

\* C24: the stored entries are always the most recently added ones in insertion
\* order; after an add they are at most maxHistoryEntries, as many as that bound
\* allows; a step never changes or reorders an entry that stays stored, and only
\* add and clear change what is stored; getAll returns the stored entries, and
\* getForTask those of the task, newest first.
C24_HistorySink ==
  /\ [](/\ IsSuffix(store.entries, store.added)
        /\ store.ret.op = "add"
             => /\ Len(store.entries) <= store.max
                /\ store.max > 0 => store.entries[Len(store.entries)].id = store.nextId - 1
        /\ store.ret.op = "getAll"
             => NewestFirst(store.ret.value, store.entries, TaskIds)
        /\ store.ret.op = "getForTask"
             => NewestFirst(store.ret.value, store.entries, {store.ret.taskId}))
  /\ [][ /\ store'.ret.op \in {"getAll", "getForTask", "configure"}
              => store'.entries = store.entries
         /\ ( store'.ret.op = "add" /\ store'.nextId # store.nextId )
              => /\ Len(store'.entries) = Min(store.max, Len(store.entries) + 1)
                 /\ IsSuffix(store'.entries,
                             Append(store.entries, store'.added[Len(store'.added)])) ]_vars

\* C24 witness: an add that evicted the oldest stored entry.
C24_Witness ==
  /\ store.ret.op = "add" /\ store.max = 2
  /\ Len(store.added) = 3
  /\ store.entries = <<store.added[2], store.added[3]>>


\* The invocations of playTask that are live.
TaskCalls == {tr \in Live : trav[tr].kind = "task"}

\* C25: playTask called in state Idle sets the state Playing and runs the retry
\* procedure on the task (p, t) without looking at its dependsOn; that invocation
\* starts no other task, skips none, emits neither playlist-completed nor
\* all-completed, and its last step sets the state Idle; playTask called in any
\* other state changes nothing.
C25_PlayTask ==
  /\ [](/\ \A tr \in TaskCalls :
             /\ Started(tr) \subseteq {<<trav[tr].startP, trav[tr].startT>>}
             /\ trav[tr].skipped = {}
             /\ trav[tr].pc \in {"executeTask", "await", "afterAttempt", "catch", "finally"}
        /\ lastEvent.type \in {"playlist-completed", "all-completed"}
             => trav[lastEvent.tr].kind = "play")
  /\ [][ /\ ( lastEvent'.type = "playTask" /\ calls' = calls + 1 )
              => IF state = Idle
                 THEN /\ state' = Playing /\ abortController' # abortController
                      /\ trav'[active'].kind = "task" /\ trav'[active'].pc = "executeTask"
                      /\ trav'[active'].startP = lastEvent'.p
                      /\ trav'[active'].startT = lastEvent'.t
                      /\ trav'[active'].k = lastEvent'.t
                 ELSE UNCHANGED <<plan, status, state, currentPlaylistIndex, currentTaskIndex,
                                  abortController, aborted, pauseResolve, trav, active>>
         /\ \A tr \in TaskCalls :
              /\ ( trav[tr].pc = "executeTask" /\ trav'[tr].pc # "executeTask"
                   /\ ~GetEngineThrows(trav[tr].startP, trav[tr].startT) )
                   => /\ lastEvent'.type = "task-started" /\ lastEvent'.tr = tr
                      /\ lastEvent'.p = trav[tr].startP /\ lastEvent'.t = trav[tr].startT
              /\ trav'[tr].pc = "free" => state' = Idle ]_vars

\* C25 witness: playTask started a task whose dependency is not Completed.
C25_Witness ==
  /\ StartedTask /\ trav[lastEvent.tr].kind = "task"
  /\ plan = PlanChain /\ lastEvent.p = 1 /\ lastEvent.t = 2
  /\ status[<<1, 1>>] = Pending


\* C26: a run started by playPlaylist(plan, i), that is by play(plan, i, 0), during
\* which no other call is made, starts tasks of playlist i only and leaves the
\* status of every task of the other playlists as it was.
C26_PlayPlaylistRunsOnePlaylist ==
  \A tr \in Live :
    ( trav[tr].kind = "play" /\ trav[tr].startT = 1 /\ calls = 1 )
    => /\ Started(tr) \subseteq PlaylistPositions(trav[tr].startP)
       /\ \A pos \in Positions : pos[1] # trav[tr].startP => status[pos] = Pending


\* The tasks from the cursor (p, t) to the end of the plan.
FromCursor(p, t) == {pos \in Positions : pos[1] > p \/ (pos[1] = p /\ pos[2] >= t)}

\* C27: when a run of play(plan, p, t), during which no other call is made, on a
\* plan whose engines are all registered, ends with all-completed, the tasks it has
\* started or skipped are exactly those from index t on of playlist p and all
\* tasks of the later playlists.  Stated for a sequential playlist p.
C27_TraversalFromCursor ==
  ( /\ lastEvent.type = "all-completed" /\ calls = 1 /\ AllRegistered
    /\ ~plan.playlists[trav[lastEvent.tr].startP].parallel )
  => Processed(lastEvent.tr) = FromCursor(trav[lastEvent.tr].startP, trav[lastEvent.tr].startT)


\* C28: whenever the runner state is Idle, no task of the plan has status Running.
C28_NoRunningWhileIdle ==
  state = Idle => \A pos \in Positions : status[pos] # Running


\* C29: resetPlan sets the status of every task of the plan to Pending and leaves
\* the plan's other fields, the runner state, the cursor, the cancellation signal,
\* the pause continuation, the live invocations and the history as they are.
C29_ResetPlanFrame ==
  [][ ( lastEvent'.type = "resetPlan" /\ calls' = calls + 1 )
      => /\ \A pos \in Positions : status'[pos] = Pending
         /\ UNCHANGED <<plan, state, currentPlaylistIndex, currentTaskIndex,
                        abortController, aborted, pauseResolve, trav, active>>
         /\ UNCHANGED store ]_vars

\* C29 witness: resetPlan called while the runner is Paused at the second task of
\* a playlist, the first task done and the second in flight.
C29_Witness ==
  /\ lastEvent.type = "resetPlan" /\ state = Paused
  /\ currentTaskIndex = 2
  /\ \E tr \in Live : /\ trav[tr].invocations[<<1, 1>>] = 1
                       /\ trav[tr].child[2].pc = "inflight"
  /\ \A pos \in Positions : status[pos] = Pending


\* C30: stop() called in state Idle changes nothing: the state stays Idle and is
\* not set anew, no signal fires, no invocation is touched; a play() that follows
\* it starts a fresh run whose cancellation signal has not fired.
C30_StopWhileIdle ==
  [][ /\ ( lastEvent'.type = "stop" /\ calls' = calls + 1 /\ state = Idle )
          => UNCHANGED <<plan, status, state, currentPlaylistIndex, currentTaskIndex,
                         abortController, aborted, pauseResolve, trav, active>>
      /\ ( lastEvent.type = "stop" /\ state = Idle /\ lastEvent'.type = "play" )
          => /\ state' = Playing /\ active' \in Live' \ Live
             /\ trav'[active'].pc = "runLoop"
             /\ abortController' \notin aborted' ]_vars

\* C30 witness: stop() called in state Idle after a run has ended; the run's
\* cancellation signal has not fired.
C30_Witness ==
  /\ lastEvent.type = "stop" /\ state = Idle
  /\ abortController = 1 /\ aborted = {} /\ Live = {}
  /\ \E pos \in Positions : status[pos] = Completed

\* The fields of y named in K have the same values in x.
SameFields(x, y, K) == \A k \in K : Get(x, k) = Get(y, k)

\* C31: the plan that loadPlan returns from the file savePlan wrote equals the
\* saved plan in every persisted field (plan: name, description, defaultEngine;
\* playlist: id, name, engine, autoplay, autoplayDelay, parallel; task: id, name,
\* prompt, engine, cwd, files, verifyCommand, retryCount, dependsOn), every task
\* of it is Pending, and no task of the saved document has a status field.
C31_SaveLoadRoundTrip ==
  planFile.call = "loadPlan" =>
    LET m == planFile.memory
        l == planFile.loaded[1]
        d == planFile.disk[1]
    IN /\ SameFields(l, m, {"name", "description", "defaultEngine"})
       /\ DOMAIN l.playlists = DOMAIN m.playlists
       /\ \A i \in DOMAIN m.playlists :
            /\ SameFields(l.playlists[i], m.playlists[i],
                 {"id", "name", "engine", "autoplay", "autoplayDelay", "parallel"})
            /\ DOMAIN l.playlists[i].tasks = DOMAIN m.playlists[i].tasks
            /\ \A j \in DOMAIN m.playlists[i].tasks :
                 /\ SameFields(l.playlists[i].tasks[j], m.playlists[i].tasks[j],
                      {"id", "name", "prompt", "engine", "cwd", "files",
                       "verifyCommand", "retryCount", "dependsOn"})
                 /\ l.playlists[i].tasks[j].status = Pending
                 /\ "status" \notin DOMAIN d.playlists[i].tasks[j]

\* C32: in a sequential playlist with autoplay = false the runner does not start the
\* next task by itself after a task has finished (a behaviour whose only call is
\* the play() that started the run shows no second task of the playlist started);
\* with autoplay = true the runner sleeps the inter-task delay before it goes on to
\* the next task; after the last task of a playlist no delay is taken.
C32_Autoplay ==
  [][\A tr \in TravIds :
       LET r == trav[tr]
           autoplay == plan.playlists[r.pi].autoplay
       IN (r.pc # "free" /\ r.kind = "play" /\ r.pi \in 1..NumPlaylists
             /\ ~plan.playlists[r.pi].parallel) =>
            /\ (/\ calls' = 1
                /\ lastEvent'.type = "task-started" /\ lastEvent'.attempt = 1
                /\ lastEvent'.tr = tr /\ lastEvent'.p = r.pi
                /\ <<r.pi, lastEvent'.t - 1>> \in Started(tr)) => autoplay
            /\ (active = tr /\ r.pc = "afterRetry" /\ autoplay
                  /\ r.ti < Len(Tasks(r.pi))) =>
                 (trav'[tr].pc = "autoplaySleep" /\ trav'[tr].ti = r.ti)
            /\ r.ti >= Len(Tasks(r.pi)) => trav'[tr].pc # "autoplaySleep"
    ]_vars

\* C33: every invocation suspended in the pause wait of runPlaylistSequential is
\* the one whose continuation _pauseResolve holds, the one the next play() or
\* stop() releases; so at most one is suspended, and none is left suspended with
\* its continuation overwritten or dropped.
C33_OnePauseWait ==
  \A tr \in TravIds : trav[tr].pc = "pauseWait" => pauseResolve = tr

\* Task k of playlist p names a task of the same playlist among its dependencies.
SiblingDep(p, k) ==
  \E i \in 1..Len(TaskAt(p, k).dependsOn) :
    \E j \in 1..Len(Tasks(p)) : j # k /\ TaskAt(p, j).id = TaskAt(p, k).dependsOn[i]

\* C34: in a parallel playlist launched with all its tasks Pending, a task that
\* depends on a sibling is marked Skipped when the launch comes to it and the
\* adapter is not invoked for it, whether the sibling is listed before it (and
\* is Running, or was refused by getEngine) or after it (and is still Pending);
\* the launch keeps no call for it, so the sibling's later outcome changes nothing.
C34_SiblingDependencySkipped ==
  [][\A tr \in TravIds :
       LET r == trav[tr]
           p == r.pi
       IN (/\ active = tr /\ r.pc = "parLaunch" /\ r.k <= Len(Tasks(p))
           /\ SiblingDep(p, r.k)
           /\ \A j \in r.k..Len(Tasks(p)) : status[<<p, j>>] = Pending
           /\ \A j \in 1..(r.k - 1) : r.child[j].pc # "none") =>
            /\ status'[<<p, r.k>>] = Skipped
            /\ trav'[tr].child[r.k] = [pc |-> "settled", attempt |-> 0]
            /\ trav'[tr].invocations = r.invocations
            /\ trav'[tr].pc = "parLaunch" /\ trav'[tr].k = r.k + 1
    ]_vars

\* C34 witness: the parallel playlist of PlanParDep has completed; a, listed before
\* the sibling b it depends on, and c, listed after it, are Skipped and were never
\* started, and b is Completed.
C34_Witness ==
  /\ plan = PlanParDep /\ lastEvent.type = "playlist-completed"
  /\ status[<<1, 1>>] = Skipped /\ status[<<1, 2>>] = Completed
  /\ status[<<1, 3>>] = Skipped
  /\ trav[lastEvent.tr].invocations[<<1, 1>>] = 0
  /\ trav[lastEvent.tr].invocations[<<1, 3>>] = 0

\* C35: a call of play() that arrives while the runner is Stopping changes nothing:
\* the state stays Stopping, no second invocation is started beside the stopped
\* one, and the stopped invocation is not handed a state in which it goes on.
C35_PlayWhileStopping ==
  [][(state = Stopping /\ calls' = calls + 1 /\ lastEvent'.type = "play") =>
       (state' = Stopping /\ Live' = Live /\ trav' = trav)
    ]_vars

\* C36: an invocation that stop() has found emits playlist-completed for a playlist
\* only if it has started or skipped every task of that playlist from its start
\* cursor on, and all-completed only if it has started or skipped every task of
\* the plan from its start cursor on: stopped before that, it emits neither.
C36_NoCompletionAfterStop ==
  ( /\ lastEvent.type \in {"playlist-completed", "all-completed"}
    /\ trav[lastEvent.tr].stop # "no" )
  => LET r == trav[lastEvent.tr] IN
     \A pos \in FromCursor(r.startP, r.startT) :
       (lastEvent.type = "playlist-completed" => pos[1] = lastEvent.p)
         => pos \in Processed(lastEvent.tr)

\* C37: task-completed is emitted for a task only when its status is Completed and
\* task-failed only when its status is Failed; for a task that is Skipped neither
\* of the two is emitted, in a sequential playlist and in a parallel one.
C37_TerminalEventsMatchStatus ==
  /\ lastEvent.type = "task-completed"
       => lastEvent.status = Completed /\ status[<<lastEvent.p, lastEvent.t>>] = Completed
  /\ lastEvent.type = "task-failed"
       => lastEvent.status = Failed /\ status[<<lastEvent.p, lastEvent.t>>] = Failed

\* The invocations of tv that have started an attempt of the task at pos and have
\* not yet emitted its terminal event.
OpenAttempts(tv, pos) ==
  {tr \in TravIds :
     /\ tv[tr].pc # "free" /\ tv[tr].pi = pos[1]
     /\ pos[2] \in DOMAIN tv[tr].child
     /\ tv[tr].child[pos[2]].pc \in {"inflight", "verifying"}}

\* C38: task-started opens an attempt of a task only when no attempt of that task
\* is open; task-completed or task-failed of an attempt closes the one open attempt
\* of its task, and with it goes one history entry whose status is the status of
\* the task and whose engine is the engine of the attempt.  So for one task the
\* started and the terminal events alternate.
C38_AttemptEvents ==
  [][/\ lastEvent'.type = "task-started" =>
          LET pos == <<lastEvent'.p, lastEvent'.t>> IN
          /\ OpenAttempts(trav, pos) = {}
          /\ OpenAttempts(trav', pos) = {lastEvent'.tr}
          /\ lastEvent'.engine = EngineId(pos[1], pos[2])
     /\ (lastEvent'.type \in {"task-completed", "task-failed"} /\ lastEvent'.attempt >= 1) =>
          LET pos == <<lastEvent'.p, lastEvent'.t>>
              tr == lastEvent'.tr IN
          /\ OpenAttempts(trav, pos) = {tr}
          /\ OpenAttempts(trav', pos) = {}
          /\ lastEvent'.recorded
          /\ trav'[tr].nHistory = trav[tr].nHistory + 1
          /\ lastEvent'.status = status'[pos]
          /\ lastEvent'.engine = EngineId(pos[1], pos[2])
    ]_vars

====
